---- MODULE Spec2Model ----
(***************************************************************************)
(* Model of permute_qpgraph.py: the stepwise-addition search over          *)
(* admixture-graph topologies (PermuteQpgraph) and its permutation driver  *)
(* (permute_qpgraph).                                                      *)
(*                                                                         *)
(* Strings are sequences of character codes, so that Python's string       *)
(* comparison (sort(), <) is the lexicographic order on the codes.         *)
(* An ElementTree is an arena: a sequence of element records, element 1    *)
(* being the root; an element's identity is its index, and "kids" lists    *)
(* its children in document order.  A deep copy is the same value.         *)
(***************************************************************************)
EXTENDS Integers, Sequences, FiniteSets, TLC

\* ------------------------------------------------------------------ text

\* Python's str < str: lexicographic on the character codes, a proper prefix
\* first; compared from position k on.
RECURSIVE StrLessFrom(_, _, _)
StrLessFrom(s, t, k) ==
    IF k > Len(t) THEN FALSE
    ELSE IF k > Len(s) THEN TRUE
    ELSE IF s[k] = t[k] THEN StrLessFrom(s, t, k + 1)
    ELSE s[k] < t[k]

StrLess(s, t) == StrLessFrom(s, t, 1)

\* '%d' % num for a non-negative integer.
RECURSIVE Digits(_)
Digits(num) ==
    IF num < 10 THEN <<48 + num>> ELSE Digits(num \div 10) \o <<48 + (num % 10)>>

\* The population labels used as inputs, the outgroup and the root tag.
LabA == <<65>>
LabB == <<66>>
LabC == <<67>>
LabD == <<68>>
LabN1 == <<110, 49>>
LabOut == <<79, 117, 116>>
root_node == <<82>>

\* ------------------------------------------------------- ElementTree arena

Element(tag) ==
    [tag |-> tag, kids |-> <<>>, internal |-> FALSE, admix |-> FALSE, side |-> ""]

NoAttrs == [internal |-> FALSE, admix |-> FALSE, side |-> ""]
AdmixAttrs(side) == [internal |-> TRUE, admix |-> TRUE, side |-> side]

\* Element.iter(): the element and its descendants in document order.
RECURSIVE Iter(_, _)
RECURSIVE IterKids(_, _, _)
Iter(t, i) == <<i>> \o IterKids(t, t[i].kids, 1)
IterKids(t, kids, k) ==
    IF k > Len(kids) THEN <<>> ELSE Iter(t, kids[k]) \o IterKids(t, kids, k + 1)

\* root_tree.findall('.//*'): every descendant of the root, in document order.
FindAll(t) == Tail(Iter(t, 1))

\* new_tree.find('.//tag') or new_tree.find('.//tag[@side="s"]'): the first
\* match in document order (0 when there is none).
Find(t, tag, side) ==
    LET m == SelectSeq(FindAll(t),
                       LAMBDA i : t[i].tag = tag /\ (side = "" \/ t[i].side = side))
    IN  IF m = <<>> THEN 0 ELSE m[1]

\* new_tree.find(xpath + '/..'): the parent of the first match.
ParentOf(t, i) ==
    CHOOSE p \in 1..Len(t) : \E k \in 1..Len(t[p].kids) : t[p].kids[k] = i

\* list.remove(x): drops the first occurrence.
RemoveFirst(s, x) ==
    LET k == CHOOSE j \in 1..Len(s) : s[j] = x /\ \A h \in 1..(j - 1) : s[h] # x
    IN  SubSeq(s, 1, k - 1) \o SubSeq(s, k + 1, Len(s))

\* new_label: n<k> or a<k>, k one more than the count of nodes of that kind.
new_label(root_tree, admix) ==
    LET all_nodes == FindAll(root_tree)
        num == IF admix
               THEN Len(SelectSeq(all_nodes, LAMBDA i : root_tree[i].admix)) \div 2
               ELSE Len(SelectSeq(all_nodes, LAMBDA i : root_tree[i].internal
                                                        /\ ~root_tree[i].admix))
    IN  (IF admix THEN <<97>> ELSE <<110>>) \o Digits(num + 1)

\* insert_node: the tree after the insertion and the element that was added.
\* The target is looked up in new_tree by its tag (and side, when it has one).
insert_node(new_tree, target_tag, target_side, new_tag, attrs, append) ==
    LET target_node == Find(new_tree, target_tag, target_side)
        parent0 == IF append THEN target_node ELSE ParentOf(new_tree, target_node)
        split == ~append /\ Len(new_tree[parent0].kids) > 1
        label == new_label(new_tree, FALSE)
        mid == Len(new_tree) + 1
        t1 == IF split
              THEN Append([new_tree EXCEPT
                              ![parent0].kids = Append(RemoveFirst(@, target_node), mid)],
                          [Element(label) EXCEPT !.internal = TRUE,
                                                 !.kids = <<target_node>>])
              ELSE new_tree
        parent_node == IF split THEN mid ELSE parent0
        new_node == Len(t1) + 1
        t2 == Append([t1 EXCEPT ![parent_node].kids = Append(@, new_node)],
                     [Element(new_tag) EXCEPT !.internal = attrs.internal,
                                              !.admix = attrs.admix,
                                              !.side = attrs.side])
    IN  [tree |-> t2, node |-> new_node]

\* --------------------------------------------------------------- Newick

RECURSIVE Join(_)
Join(parts) ==
    IF parts = <<>> THEN <<>>
    ELSE IF Len(parts) = 1 THEN parts[1]
    ELSE parts[1] \o <<44>> \o Join(Tail(parts))

\* The pattern without its alternative for the root.
IsSyntheticTagNoRoot(tag) == Len(tag) >= 2 /\ tag[1] = 110 /\ tag[2] \in 48..57

\* re.match('n[0-9]+|R', tag): a prefix match.
IsSyntheticTag(tag) ==
    \/ Len(tag) >= 2 /\ tag[1] = 110 /\ tag[2] \in 48..57
    \/ Len(tag) >= 1 /\ tag[1] = 82

\* Python's comparison of the (tag, rendering) tuples.
ChildLess(a, b) ==
    \/ StrLess(a.tag, b.tag)
    \/ a.tag = b.tag /\ StrLess(a.export, b.export)

\* Bio.Phylo stably re-sorts the clades it read by their number of terminals.
CladeLess(a, b) == a.terminals < b.terminals

\* list.sort(): a stable insertion sort, by the (tag, rendering) pairs or,
\* when ladderizing, by the number of terminals.
InsertSorted(x, s, ladderize) ==
    LET after == {j \in 1..Len(s) :
                     IF ladderize THEN CladeLess(x, s[j]) ELSE ChildLess(x, s[j])}
        p == IF after = {} THEN Len(s) + 1
             ELSE CHOOSE j \in after : \A h \in after : j <= h
    IN  SubSeq(s, 1, p - 1) \o <<x>> \o SubSeq(s, p, Len(s))

SortStable(s, ladderize) ==
    LET F[k \in 0..Len(s)] ==
            IF k = 0 THEN <<>> ELSE InsertSorted(s[k], F[k - 1], ladderize)
    IN  F[Len(s)]

\* What the two passes over the element make of it, computed together:
\*   export     export_newick_tree: the children rendered, sorted by
\*              (tag, rendering) and joined; 'n<k>' and 'R' names dropped;
\*   terminals  Bio.Phylo: Clade.count_terminals() of the clade read back;
\*   written    Bio.Phylo: tree.ladderize() then Phylo.write: the clades in
\*              the order of the string, stably re-sorted by their number of
\*              terminals, written with the names the string carried.
RECURSIVE Render(_, _)
Render(t, i) ==
    IF Len(t[i].kids) = 0
    THEN [tag |-> t[i].tag, export |-> t[i].tag, written |-> t[i].tag, terminals |-> 1]
    ELSE LET rendered == [k \in 1..Len(t[i].kids) |-> Render(t, t[i].kids[k])]
             children == SortStable(rendered, FALSE)
             clades == SortStable(children, TRUE)
             tag_name == IF IsSyntheticTag(t[i].tag) THEN <<>> ELSE t[i].tag
             Sum[k \in 0..Len(children)] ==
                 IF k = 0 THEN 0 ELSE Sum[k - 1] + children[k].terminals
         IN  [tag |-> t[i].tag,
              export |-> <<40>> \o Join([k \in 1..Len(children) |-> children[k].export])
                               \o <<41>> \o tag_name,
              written |-> <<40>> \o Join([k \in 1..Len(clades) |-> clades[k].written])
                                \o <<41>> \o tag_name,
              terminals |-> Sum[Len(children)]]

export_newick_tree(t, parent_node) == Render(t, parent_node).export

\* print_newick_tree: the ladderized Newick string, ':0.00000' removed; the
\* writer ends the tree with ';'.
print_newick_tree(root_tee) == Render(root_tee, 1).written \o <<59>>

\* hash_text: the 7-digit prefix of the SHA-1 of the text, as an opaque digest
\* that is determined by the text (digest collisions are not modelled).
hash_text(text) == [sha1 |-> text]

\* ------------------------------------------------------------- the oracle

\* how many outliers should we allow before pruning a branch in graph space
MAX_OUTLIER_THRESHOLD == 0

\* The largest number of outlier records in a log that qpGraph writes.
MaxOutliers == 1

\* A qpGraph log is a sequence of lines; a line is classified by what
\* extract_outliers looks for in it: "outliers" (holds 'outliers'), "worst"
\* (holds 'worst f-stat'), "rec" (any other non-blank line), "blank".
WellFormedLog(k) == <<"outliers">> \o [j \in 1..k |-> "rec"] \o <<"worst">>

\* Logs that lack a section marker: no 'outliers' line, no 'worst f-stat' line.
MalformedLogs == {<<"rec", "worst">>, <<"outliers", "rec">>}

OracleLogs == {WellFormedLog(k) : k \in 0..MaxOutliers} \cup MalformedLogs

\* extract_outliers: the state of the scan after the first k lines.
RECURSIVE ScanLog(_, _)
ScanLog(log, k) ==
    IF k = 0 THEN [outliers |-> <<>>, read_log |-> FALSE, worst_fstat |-> <<>>]
    ELSE LET st == ScanLog(log, k - 1)
             line == log[k]
         IN  IF line = "outliers" THEN [st EXCEPT !.read_log = TRUE]
             ELSE IF line = "worst"
                  THEN [st EXCEPT !.worst_fstat = <<"worst", "f-stat:">>,
                                  !.read_log = FALSE]
             ELSE IF st.read_log /\ line # "blank"
                  THEN [st EXCEPT !.outliers = Append(@, <<line>>)]
             ELSE st

extract_outliers(log) ==
    LET st == ScanLog(log, Len(log))
    IN  [outliers |-> st.outliers, worst_fstat |-> st.worst_fstat]

\* run_qpgraph, lines 272-298, on the log (cached or just written) of the
\* tree: the parsed result, or the IndexError of worst_fstat[-1] on an empty
\* list.  The graph name of the tree is kept beside it in the batch.
run_qpgraph(log) ==
    LET parsed == extract_outliers(log)
    IN  [done |-> TRUE,
         error |-> IF parsed.worst_fstat = <<>> THEN "IndexError" ELSE "",
         outliers |-> parsed.outliers]

\* The threshold test off by one.
PassesThresholdLax(outliers) == Len(outliers) <= MAX_OUTLIER_THRESHOLD + 1

\* check_results: did our new tree pass the threshold
PassesThreshold(outliers) == Len(outliers) <= MAX_OUTLIER_THRESHOLD

\* ------------------------------------------------------------ the inputs

outgroup == LabOut

\* The node lists handed to permute_qpgraph.
NodeLists ==
    { <<LabOut, LabA, LabB>>,
      <<LabA, LabB, LabC>>,
      <<LabA, LabA>>,
      <<LabOut, LabA>> }

\* The runs of permute_qpgraph: a node list and EXHAUSTIVE_SEARCH.
Runs ==
    (NodeLists \X {FALSE}) \cup ({<<LabOut, LabA, LabB>>, <<LabA, LabA>>} \X {TRUE})

\* The runs with the trees tested one after the other: on four populations
\* on two and on one.
Runs4 == {<< <<LabA, LabB, LabC, LabD>>, FALSE >>, << <<LabOut, LabA, LabB>>, FALSE >>,
          << <<LabOut, LabA>>, FALSE >>}

\* The trees built outside a search: side by side on three populations with
\* at most MaxAdmix admixtures and on four with at most MaxAdmix4; alone,
\* on the populations of one of GrowLists, with at most MaxAdmixGrow.
MaxAdmix == 1
MaxAdmix4 == 0
MaxAdmixGrow == 2
GrowLists == {<<LabA, LabB, LabC, LabD>>, <<LabA, LabB, LabN1>>}
BuildRuns == {[labels |-> <<LabA, LabB, LabC>>, admix |-> MaxAdmix],
              [labels |-> <<LabA, LabB, LabC, LabD>>, admix |-> MaxAdmix4]}

\* What qpGraph does in one run, at most: how many malformed logs it writes
\* and how many graphs it finds within the threshold.
MaxMalformed == 1
MaxPassing == 6
MaxPassing4 == 2

\* The size of the worker pool of test_trees.
MAX_CPU_CORES == 2

\* itertools.permutations(nodes, len(nodes)), in the order it yields them.
RECURSIVE permutations(_)
RECURSIVE permutations_from(_, _)
permutations(s) == IF s = <<>> THEN << <<>> >> ELSE permutations_from(s, 1)
permutations_from(s, i) ==
    IF i > Len(s) THEN <<>>
    ELSE LET rest == SubSeq(s, 1, i - 1) \o SubSeq(s, i + 1, Len(s))
             tails == permutations(rest)
         IN  [k \in 1..Len(tails) |-> <<s[i]>> \o tails[k]]
                 \o permutations_from(s, i + 1)

\* __init__: if outgroup in nodes: nodes.remove(outgroup)
InitNodes(given) ==
    IF \E k \in 1..Len(given) : given[k] = outgroup
    THEN RemoveFirst(given, outgroup) ELSE given

\* A result that check_results lets through.
Passing(result) == result.error = "" /\ PassesThreshold(result.outliers)

\* -------------------------------------------------------------- the state

VARIABLES
    nodes,           \* qp.nodes: the insertion order of the current attempt
    exhaustive,      \* EXHAUSTIVE_SEARCH
    all_nodes_perms, \* the work list of starting orders
    problem_nodes,   \* qp.problem_nodes
    tested_graphs,   \* qp.tested_graphs
    solutions,       \* qp.solutions
    logs,            \* the log files on disk, by graph name
    stack,           \* the recurse_tree calls in progress, innermost last
    pc,              \* where permute_qpgraph is
    outcome,         \* how the last find_graph call ended
    attempts,        \* the orders find_graph was called with, in turn
    ret,             \* what permute_qpgraph returned
    cores,           \* the size of the worker pool
    budget,          \* the malformed and the passing logs qpGraph may still write
    build,           \* trees under construction, outside any search
    this_attempt     \* history of the find_graph call in progress: how many
                     \* problem nodes there were when it began, and whether
                     \* it has added to the solutions

search_vars == <<nodes, exhaustive, all_nodes_perms, problem_nodes, tested_graphs,
                 solutions, logs, stack, pc, outcome, attempts, ret, cores, budget,
                 this_attempt>>

vars == <<search_vars, build>>

NoResult == [done |-> FALSE, error |-> "", outliers |-> <<>>]

\* test_trees is entered with a batch: every tree of it awaits its result; an
\* empty batch returns [] at once and check_results starts on it.
Submit(f, trees, admix) ==
    [f EXCEPT !.graph_names = [k \in 1..Len(trees) |->
                                  hash_text(print_newick_tree(trees[k]))],
              !.results = [k \in 1..Len(trees) |-> NoResult],
              !.admix = admix,
              !.idx = 1,
              !.placed_node = FALSE,
              !.at = IF trees = <<>> THEN "check_results" ELSE "test_trees"]

\* All the nodes in the tree, the outgroup with them.
target_nodes_all(root_tree) == FindAll(root_tree)

\* all the nodes in the tree (skip the outgroup)
target_nodes(root_tree) ==
    SelectSeq(FindAll(root_tree), LAMBDA i : root_tree[i].tag # outgroup)

\* add the new node to every branch in the tree
RegularTrees(root_tree, new_tag) ==
    LET targets == target_nodes(root_tree)
    IN  [k \in 1..Len(targets) |->
            insert_node(root_tree, root_tree[targets[k]].tag,
                        root_tree[targets[k]].side, new_tag, NoAttrs, FALSE).tree]

\* itertools.combinations(target_nodes, 2)
RECURSIVE combinations2(_, _, _)
combinations2(s, i, j) ==
    IF i >= Len(s) THEN <<>>
    ELSE IF j > Len(s) THEN combinations2(s, i + 1, i + 2)
    ELSE << <<s[i], s[j]>> >> \o combinations2(s, i, j + 1)

\* The test of the tags inverted: only the pairs of equal tags are kept.
AdmixPairsEqualTags(root_tree) ==
    SelectSeq(combinations2(target_nodes(root_tree), 1, 2),
              LAMBDA pr : root_tree[pr[1]].tag = root_tree[pr[2]].tag)

\* skip duplicate targets: if target1.tag == target2.tag: continue
AdmixPairs(root_tree) ==
    SelectSeq(combinations2(target_nodes(root_tree), 1, 2),
              LAMBDA pr : root_tree[pr[1]].tag # root_tree[pr[2]].tag)

\* target1.tag < target2.tag: which of the two admix nodes gets the new node
PreferFirst(tag1, tag2) == StrLess(tag1, tag2)

\* One admixture candidate: two admix nodes on the branches of both targets,
\* the new node appended to the preferred one.
AdmixTree(root_tree, target1, target2, new_tag) ==
    LET admix_label == new_label(root_tree, TRUE)
        t1 == insert_node(root_tree, root_tree[target1].tag, root_tree[target1].side,
                          admix_label, AdmixAttrs("l"), FALSE).tree
        t2 == insert_node(t1, root_tree[target2].tag, root_tree[target2].side,
                          admix_label, AdmixAttrs("r"), FALSE).tree
        side == IF PreferFirst(root_tree[target1].tag, root_tree[target2].tag)
                THEN "l" ELSE "r"
    IN  insert_node(t2, admix_label, side, new_tag, NoAttrs, TRUE).tree

AdmixTrees(root_tree, new_tag) ==
    LET pairs == AdmixPairs(root_tree)
    IN  [k \in 1..Len(pairs) |-> AdmixTree(root_tree, pairs[k][1], pairs[k][2], new_tag)]

\* A call recurse_tree(root_tree, new_tag, remaining, depth), entered from
\* `via`, up to its first call of test_trees (lines 68-82): the regular
\* candidates are built and handed to test_trees.
Frame(root_tree, new_tag, remaining, depth, via) ==
    Submit([root_tree |-> root_tree, new_tag |-> new_tag, remaining |-> remaining,
            depth |-> depth, via |-> via, at |-> "test_trees", admix |-> FALSE,
            graph_names |-> <<>>, results |-> <<>>,
            idx |-> 1, placed_node |-> FALSE],
           RegularTrees(root_tree, new_tag), FALSE)

\* The batch of a call: the candidate trees it handed to test_trees, which
\* are a function of its tree and its node.
new_trees(f) ==
    IF f.admix THEN AdmixTrees(f.root_tree, f.new_tag)
    ELSE RegularTrees(f.root_tree, f.new_tag)

Top == stack[Len(stack)]
WithTop(f) == [stack EXCEPT ![Len(stack)] = f]

\* permute_qpgraph up to its loop: the object is built, the outgroup taken
\* out of the node list, the permutations listed.
Start(run) ==
    /\ nodes = InitNodes(run[1])
    /\ all_nodes_perms = permutations(InitNodes(run[1]))
    /\ exhaustive = run[2]
    /\ problem_nodes = <<>>
    /\ tested_graphs = {}
    /\ solutions = {}
    /\ logs = [h \in {} |-> <<>>]
    /\ stack = <<>>
    /\ pc = "while"
    /\ outcome = "none"
    /\ attempts = <<>>
    /\ ret = "none"
    /\ build = <<>>
    /\ this_attempt = [problem_base |-> 0, recorded |-> FALSE]

Init ==
    /\ \E run \in Runs : Start(run)
    /\ cores = MAX_CPU_CORES
    /\ budget = [malformed |-> MaxMalformed, passing |-> MaxPassing]

Init4 ==
    /\ \E run \in Runs4 : Start(run)
    /\ cores = 1
    /\ budget = [malformed |-> 0, passing |-> MaxPassing4]

\* ------------------------------------------------------ permute_qpgraph

\* The loop without its test of the solutions.
KeepLoopingAlways == TRUE

\* while not qp.solutions or EXHAUSTIVE_SEARCH
KeepLooping == solutions = {} \/ exhaustive

\* find_graph: the simple 2-node tree, root -> outgroup, root -> nodes[0]
StartTree ==
    << [Element(root_node) EXCEPT !.kids = <<2, 3>>],
       Element(outgroup), Element(nodes[1]) >>

\* qp.find_graph() is entered: it builds the starting tree and calls
\* recurse_tree(root_tree, self.nodes[1], self.nodes[2:]).
StartAttempt ==
    /\ pc = "while" /\ KeepLooping
    /\ Len(nodes) >= 2
    /\ stack' = << Frame(StartTree, nodes[2], SubSeq(nodes, 3, Len(nodes)), 0,
                         "find_graph") >>
    /\ pc' = "find_graph"
    /\ attempts' = Append(attempts, nodes)
    /\ this_attempt' = [problem_base |-> Len(problem_nodes), recorded |-> FALSE]
    /\ UNCHANGED <<nodes, exhaustive, all_nodes_perms, problem_nodes,
                   tested_graphs, solutions, logs, outcome, ret, cores, budget, build>>

\* find_graph on fewer than two nodes: self.nodes[0] or self.nodes[1] raises
\* IndexError, which permute_qpgraph does not catch.
StartAttemptIndexError ==
    /\ pc = "while" /\ KeepLooping
    /\ Len(nodes) < 2
    /\ pc' = "crashed"
    /\ outcome' = "IndexError"
    /\ attempts' = Append(attempts, nodes)
    /\ this_attempt' = [problem_base |-> Len(problem_nodes), recorded |-> FALSE]
    /\ UNCHANGED <<nodes, exhaustive, all_nodes_perms, problem_nodes,
                   tested_graphs, solutions, logs, stack, ret, cores, budget, build>>

\* The while condition is false: fall out of the loop and return.
LoopExit ==
    /\ pc = "while" /\ ~KeepLooping
    /\ pc' = "finished"
    /\ ret' = (Cardinality(solutions) > 0)
    /\ UNCHANGED <<nodes, exhaustive, all_nodes_perms, problem_nodes, tested_graphs,
                   solutions, logs, stack, outcome, attempts, cores, budget, build,
                   this_attempt>>

\* qp.nodes = list(all_nodes_perms.pop()), or IndexError -> break and return.
NextPermutation ==
    /\ pc = "pop"
    /\ IF all_nodes_perms # <<>>
       THEN /\ nodes' = all_nodes_perms[Len(all_nodes_perms)]
            /\ all_nodes_perms' = SubSeq(all_nodes_perms, 1, Len(all_nodes_perms) - 1)
            /\ pc' = "while"
            /\ ret' = ret
       ELSE /\ pc' = "finished"
            /\ ret' = (Cardinality(solutions) > 0)
            /\ UNCHANGED <<nodes, all_nodes_perms>>
    /\ UNCHANGED <<exhaustive, problem_nodes, tested_graphs, solutions, logs,
                   stack, outcome, attempts, cores, budget, build,
                   this_attempt>>

\* --------------------------------------------------------- recurse_tree

\* pool.map handing back the results as soon as one of them is there.
MapReturnsEarly(results) == \E j \in 1..Len(results) : results[j].done

\* pool.map returns the list of results when every tree of the batch has its
\* result.
MapReturns(results) == \A j \in 1..Len(results) : results[j].done

\* One run_qpgraph of the batch completes: pool.map hands the trees out in
\* order to the workers of the pool, which finish in any order.  The log
\* is read from disk when it exists, else qpGraph runs and the log is saved.
\* An IndexError raised by a worker is re-raised by pool.map in recurse_tree
\* and nothing catches it.  After the last result test_trees returns and
\* check_results starts.
RunQpgraph ==
    /\ pc = "find_graph" /\ stack # <<>>
    /\ Top.at = "test_trees"
    /\ \E k \in 1..Len(Top.results), log \in OracleLogs :
          LET graph_name == Top.graph_names[k]
              cached == graph_name \in DOMAIN logs
              result == run_qpgraph(log)
              results == [Top.results EXCEPT ![k] = result]
          IN  /\ ~Top.results[k].done
              /\ Cardinality({j \in 1..(k - 1) : ~Top.results[j].done}) < cores
              /\ IF cached THEN log = logs[graph_name]
                 ELSE /\ log \in MalformedLogs => budget.malformed > 0
                      /\ Passing(result) => budget.passing > 0
              /\ logs' = IF cached THEN logs ELSE logs @@ (graph_name :> log)
              /\ budget' = IF cached THEN budget
                           ELSE [malformed |-> budget.malformed
                                     - (IF log \in MalformedLogs THEN 1 ELSE 0),
                                 passing |-> budget.passing
                                     - (IF Passing(result) THEN 1 ELSE 0)]
              /\ IF result.error # ""
                 THEN /\ stack' = <<>>
                      /\ pc' = "crashed"
                      /\ outcome' = result.error
                 ELSE /\ stack' = WithTop(
                            [Top EXCEPT !.results = results,
                                        !.at = IF MapReturns(results)
                                               THEN "check_results"
                                               ELSE "test_trees"])
                      /\ UNCHANGED <<pc, outcome>>
    /\ UNCHANGED <<nodes, exhaustive, all_nodes_perms, problem_nodes, tested_graphs,
                   solutions, attempts, ret, cores, build,
                   this_attempt>>

\* The same with "placed_node = True" also for a tree over the threshold.
RECURSIVE check_results_any(_, _)
check_results_any(f, st) ==
    IF st.idx > Len(f.results) THEN st
    ELSE LET graph_name == f.graph_names[st.idx]
             tested == [st EXCEPT !.tested = @ \cup {graph_name}]
         IN  IF PassesThreshold(f.results[st.idx].outliers)
             THEN IF f.remaining # <<>>
                  THEN [tested EXCEPT !.recurse = TRUE]
                  ELSE check_results_any(f, [tested EXCEPT !.solutions = @ \cup {graph_name},
                                                           !.placed_node = TRUE,
                                                           !.idx = @ + 1])
             ELSE check_results_any(f, [tested EXCEPT !.placed_node = TRUE,
                                                      !.idx = @ + 1])

\* check_results from result idx on, up to the result it recurses into or to
\* the end of the loop: what it has added to the tested graphs and to the
\* solutions, whether it placed the node, and where it stopped.
RECURSIVE check_results(_, _)
check_results(f, st) ==
    IF st.idx > Len(f.results) THEN st
    ELSE LET graph_name == f.graph_names[st.idx]
             tested == [st EXCEPT !.tested = @ \cup {graph_name}]
         IN  IF PassesThreshold(f.results[st.idx].outliers)
             THEN IF f.remaining # <<>>
                  THEN [tested EXCEPT !.recurse = TRUE]
                  ELSE check_results(f, [tested EXCEPT !.solutions = @ \cup {graph_name},
                                                       !.placed_node = TRUE,
                                                       !.idx = @ + 1])
             ELSE check_results(f, [tested EXCEPT !.idx = @ + 1])

\* check_results runs on the results of the batch (or goes on after the call
\* it made has returned) until it calls recurse_tree on a tree that passed,
\* or returns node_placed.
CheckResults ==
    /\ pc = "find_graph" /\ stack # <<>>
    /\ Top.at = "check_results"
    /\ LET st == check_results(Top, [idx |-> Top.idx, placed_node |-> Top.placed_node,
                                     tested |-> tested_graphs, solutions |-> solutions,
                                     recurse |-> FALSE])
           f == [Top EXCEPT !.idx = st.idx, !.placed_node = st.placed_node]
       IN  /\ tested_graphs' = st.tested
           /\ solutions' = st.solutions
           /\ this_attempt' = [this_attempt EXCEPT !.recorded =
                  @ \/ (Top.remaining = <<>> /\ \E j \in Top.idx..Len(Top.results) :
                           PassesThreshold(Top.results[j].outliers))]
           /\ stack' = IF st.recurse
                       THEN Append(WithTop([f EXCEPT !.at = "recursing"]),
                                   Frame(new_trees(f)[f.idx], f.remaining[1],
                                         Tail(f.remaining), f.depth + 1,
                                         "check_results"))
                       ELSE WithTop([f EXCEPT !.at = "checked"])
    /\ UNCHANGED <<nodes, exhaustive, all_nodes_perms, problem_nodes, logs, pc,
                   outcome, attempts, ret, cores, budget, build>>

\* The same without "placed_node = True" after the call returns.
RECURSIVE ReturnedUnplaced(_)
ReturnedUnplaced(stk) ==
    LET rest == SubSeq(stk, 1, Len(stk) - 1)
    IN  IF rest = <<>> THEN rest
        ELSE LET caller == rest[Len(rest)]
             IN  IF caller.at = "recursing"
                 THEN [rest EXCEPT ![Len(rest)] =
                          [caller EXCEPT !.idx = @ + 1, !.at = "check_results"]]
                 ELSE ReturnedUnplaced(rest)

\* The stack after the innermost recurse_tree returns: a check_results that
\* recursed goes on with placed_node = True; a call that deferred returns in
\* its turn.
RECURSIVE Returned(_)
Returned(stk) ==
    LET rest == SubSeq(stk, 1, Len(stk) - 1)
    IN  IF rest = <<>> THEN rest
        ELSE LET caller == rest[Len(rest)]
             IN  IF caller.at = "recursing"
                 THEN [rest EXCEPT ![Len(rest)] =
                          [caller EXCEPT !.placed_node = TRUE, !.idx = @ + 1,
                                         !.at = "check_results"]]
                 ELSE Returned(rest)

\* recurse_tree returns: the node was placed.  When the outermost call
\* returns, find_graph returns to the driver.
Return ==
    /\ pc = "find_graph" /\ stack # <<>>
    /\ Top.at = "checked" /\ Top.placed_node
    /\ stack' = Returned(stack)
    /\ IF stack' = <<>>
       THEN pc' = "pop" /\ outcome' = "returned"
       ELSE UNCHANGED <<pc, outcome>>
    /\ UNCHANGED <<nodes, exhaustive, all_nodes_perms, problem_nodes, tested_graphs,
                   solutions, logs, attempts, ret, cores, budget, build,
                   this_attempt>>

\* recurse_tree, lines 88-121: no regular candidate placed the node, so build
\* the admixture candidates and hand them to test_trees.
BuildAdmix ==
    /\ pc = "find_graph" /\ stack # <<>>
    /\ Top.at = "checked" /\ ~Top.placed_node /\ ~Top.admix
    /\ stack' = WithTop(Submit(Top, AdmixTrees(Top.root_tree, Top.new_tag), TRUE))
    /\ UNCHANGED <<nodes, exhaustive, all_nodes_perms, problem_nodes, tested_graphs,
                   solutions, logs, pc, outcome, attempts, ret, cores, budget, build,
                   this_attempt>>

\* The test without its look at the problem nodes.
CanDeferAgain(new_tag, remaining) == remaining # <<>> /\ ~exhaustive

\* new_tag not in self.problem_nodes and remaining and not EXHAUSTIVE_SEARCH
CanDefer(new_tag, remaining) ==
    /\ \A k \in 1..Len(problem_nodes) : problem_nodes[k] # new_tag
    /\ remaining # <<>>
    /\ ~exhaustive

\* The same without "remaining.append(new_tag)": the node is dropped.
DeferDropping ==
    /\ pc = "find_graph" /\ stack # <<>>
    /\ Top.at = "checked" /\ ~Top.placed_node /\ Top.admix
    /\ CanDefer(Top.new_tag, Top.remaining)
    /\ problem_nodes' = Append(problem_nodes, Top.new_tag)
    /\ stack' = Append(WithTop([Top EXCEPT !.at = "deferred"]),
                       Frame(Top.root_tree, Top.remaining[1], Tail(Top.remaining),
                             Top.depth, "deferral"))
    /\ UNCHANGED <<nodes, exhaustive, all_nodes_perms, tested_graphs, solutions,
                   logs, pc, outcome, attempts, ret, cores, budget, build,
                   this_attempt>>

\* recurse_tree, lines 129-138: the node is sent to the back of the list and
\* the next one is tried on the same tree at the same depth.
Defer ==
    /\ pc = "find_graph" /\ stack # <<>>
    /\ Top.at = "checked" /\ ~Top.placed_node /\ Top.admix
    /\ CanDefer(Top.new_tag, Top.remaining)
    /\ problem_nodes' = Append(problem_nodes, Top.new_tag)
    /\ LET remaining == Append(Top.remaining, Top.new_tag)
       IN  stack' = Append(WithTop([Top EXCEPT !.remaining = remaining,
                                               !.at = "deferred"]),
                           Frame(Top.root_tree, remaining[1], Tail(remaining),
                                 Top.depth, "deferral"))
    /\ UNCHANGED <<nodes, exhaustive, all_nodes_perms, tested_graphs, solutions,
                   logs, pc, outcome, attempts, ret, cores, budget, build,
                   this_attempt>>

\* recurse_tree, line 141: raise NodeUnplaceable; it unwinds every call of
\* the attempt and permute_qpgraph catches it.
RaiseNodeUnplaceable ==
    /\ pc = "find_graph" /\ stack # <<>>
    /\ Top.at = "checked" /\ ~Top.placed_node /\ Top.admix
    /\ ~CanDefer(Top.new_tag, Top.remaining)
    /\ stack' = <<>>
    /\ pc' = "pop"
    /\ outcome' = "NodeUnplaceable"
    /\ UNCHANGED <<nodes, exhaustive, all_nodes_perms, problem_nodes, tested_graphs,
                   solutions, logs, attempts, ret, cores, budget, build,
                   this_attempt>>

Next ==
    \/ StartAttempt
    \/ StartAttemptIndexError
    \/ LoopExit
    \/ NextPermutation
    \/ RunQpgraph
    \/ CheckResults
    \/ Return
    \/ BuildAdmix
    \/ Defer
    \/ RaiseNodeUnplaceable

Spec == Init /\ [][Next]_vars

Spec4 == Init4 /\ [][Next]_vars

\* ------------------------------------------- insertions outside a search

\* Two trees are grown side by side, each from its own order of the
\* populations, by the insertions recurse_tree makes: the next node on any
\* branch, or as an admixture of any pair of branches.
StartTreeOf(first) ==
    << [Element(root_node) EXCEPT !.kids = <<2, 3>>],
       Element(outgroup), Element(first) >>

NumAdmix(t) == Len(SelectSeq(FindAll(t), LAMBDA i : t[i].admix)) \div 2

InitBuild ==
    /\ nodes = <<>> /\ all_nodes_perms = <<>> /\ exhaustive = FALSE
    /\ problem_nodes = <<>> /\ tested_graphs = {} /\ solutions = {}
    /\ logs = [h \in {} |-> <<>>] /\ stack = <<>> /\ pc = "build"
    /\ outcome = "none" /\ attempts = <<>> /\ ret = "none"
    /\ cores = 1 /\ budget = [malformed |-> 0, passing |-> 0]
    /\ this_attempt = [problem_base |-> 0, recorded |-> FALSE]
    /\ \E run \in BuildRuns :
          \E a, b \in 1..Len(permutations(run.labels)) :
             build = [i \in 1..2 |->
                         LET order == permutations(run.labels)[IF i = 1 THEN a ELSE b]
                         IN  [tree |-> StartTreeOf(order[1]), remaining |-> Tail(order),
                              admix |-> run.admix]]

InsertRegular(i) ==
    /\ pc = "build" /\ i \in DOMAIN build /\ build[i].remaining # <<>>
    /\ \E k \in 1..Len(target_nodes(build[i].tree)) :
          build' = [build EXCEPT
                       ![i].tree = RegularTrees(@, build[i].remaining[1])[k],
                       ![i].remaining = Tail(@)]
    /\ UNCHANGED search_vars

InsertAdmixture(i) ==
    /\ pc = "build" /\ i \in DOMAIN build /\ build[i].remaining # <<>>
    /\ NumAdmix(build[i].tree) < build[i].admix
    /\ \E k \in 1..Len(AdmixPairs(build[i].tree)) :
          build' = [build EXCEPT
                       ![i].tree = AdmixTrees(@, build[i].remaining[1])[k],
                       ![i].remaining = Tail(@)]
    /\ UNCHANGED search_vars

NextBuild == \E i \in 1..2 : InsertRegular(i) \/ InsertAdmixture(i)

SpecBuild == InitBuild /\ [][NextBuild]_vars

\* One tree is grown from any order of the populations A, B, C, D, or of
\* A, B and a population that is called n1, by any sequence of insertions
\* with at most MaxAdmixGrow admixtures.
InitGrow ==
    /\ nodes = <<>> /\ all_nodes_perms = <<>> /\ exhaustive = FALSE
    /\ problem_nodes = <<>> /\ tested_graphs = {} /\ solutions = {}
    /\ logs = [h \in {} |-> <<>>] /\ stack = <<>> /\ pc = "build"
    /\ outcome = "none" /\ attempts = <<>> /\ ret = "none"
    /\ cores = 1 /\ budget = [malformed |-> 0, passing |-> 0]
    /\ this_attempt = [problem_base |-> 0, recorded |-> FALSE]
    /\ \E labels \in GrowLists :
          \E a \in 1..Len(permutations(labels)) :
             LET order == permutations(labels)[a]
             IN  build = << [tree |-> StartTreeOf(order[1]), remaining |-> Tail(order),
                             admix |-> MaxAdmixGrow] >>

SpecGrow == InitGrow /\ [][NextBuild]_vars

\* ------------------------------------------------------------ the claims

\* What the log of a graph makes of it in check_results.
OutliersOf(graph_name) == extract_outliers(logs[graph_name]).outliers
GraphName(tree) == hash_text(print_newick_tree(tree))

\* A graph name that shows an admixture label a<k>.
IsAdmixName(graph_name) ==
    \E k \in 1..(Len(graph_name.sha1) - 1) :
        graph_name.sha1[k] = 97 /\ graph_name.sha1[k + 1] \in 48..57

\* The run is on the populations A, B (and the outgroup Out).
RunOnAB == attempts # <<>> /\ attempts[1] = <<LabA, LabB>>

\* The first find_graph call of the run has ended.
FirstAttemptOver == attempts # <<>> /\ pc \in {"pop", "while", "finished"}

\* C1: every tree that check_results has called recurse_tree on, and every
\* graph in the solutions, has at most MAX_OUTLIER_THRESHOLD outliers in the
\* log of its own evaluation.
C1_PruningCorrect ==
    /\ \A k \in 1..Len(stack) :
          stack[k].via = "check_results" =>
              /\ GraphName(stack[k].root_tree) \in DOMAIN logs
              /\ Len(OutliersOf(GraphName(stack[k].root_tree))) <= MAX_OUTLIER_THRESHOLD
    /\ \A s \in solutions :
          s \in DOMAIN logs /\ Len(OutliersOf(s)) <= MAX_OUTLIER_THRESHOLD

\* C1: a call made by check_results is in progress and a solution is recorded.
C1_Witness ==
    /\ \E k \in 1..Len(stack) : stack[k].via = "check_results"
    /\ solutions # {}

\* C2 as claimed: permute_qpgraph never ends in an exception, and when it
\* returns it returns true with a solution recorded, or false with no
\* solution and the work list exhausted.
C2_DriverOutcomes ==
    /\ pc # "crashed"
    /\ pc = "finished" =>
          \/ ret = TRUE /\ solutions # {}
          \/ ret = FALSE /\ solutions = {} /\ all_nodes_perms = <<>>

\* C3: a find_graph call is started only while no solution is recorded or
\* the search is exhaustive; and an exhaustive search returns only after
\* every permutation of the node list has been the order of an attempt.
C3_StartsOnlyWhileLooking ==
    attempts' # attempts => (solutions = {} \/ exhaustive)
C3_ExhaustiveTriesAll ==
    (pc = "finished" /\ exhaustive) =>
        /\ attempts # <<>>
        /\ LET all == permutations(attempts[1])
           IN  \A k \in 1..Len(all) : \E j \in 1..Len(attempts) : attempts[j] = all[k]
C3_DriverLoop == [][C3_StartsOnlyWhileLooking]_vars /\ []C3_ExhaustiveTriesAll

\* C3: an exhaustive search has returned, having gone on after a solution.
C3_Witness ==
    /\ pc = "finished" /\ exhaustive
    /\ solutions # {}
    /\ Len(attempts) = 3

\* C4 as claimed: a find_graph call ends by returning or by one
\* NodeUnplaceable, and in no other way.
C4_FindGraphOutcomes == outcome \in {"none", "returned", "NodeUnplaceable"}

NewickOutAB ==
    <<40>> \o LabOut \o <<44, 40>> \o LabA \o <<44>> \o LabB \o <<41, 41, 59>>

\* C8: on the nodes Out, A, B with threshold 0, when every log so far shows
\* zero outliers and the first find_graph call has ended, that call returned,
\* exactly one solution is recorded, (Out,(A,B)), and no other graph, so no
\* admixture graph, was evaluated.
C8_ScenarioA ==
    (RunOnAB /\ FirstAttemptOver /\ MAX_OUTLIER_THRESHOLD = 0
        /\ \A h \in DOMAIN logs : logs[h] = WellFormedLog(0))
    => /\ outcome = "returned"
       /\ solutions = {hash_text(NewickOutAB)}
       /\ DOMAIN logs = {hash_text(NewickOutAB)}
       /\ tested_graphs = {hash_text(NewickOutAB)}

\* C8: such a run has returned true.
C8_Witness ==
    /\ RunOnAB /\ pc = "finished" /\ ret = TRUE
    /\ \A h \in DOMAIN logs : logs[h] = WellFormedLog(0)

\* The population nodes of a tree carry pairwise different labels.
DistinctPopulations(t) ==
    \A a, b \in 1..Len(t) :
        (a # b /\ ~t[a].internal /\ ~t[b].internal) => t[a].tag # t[b].tag

\* C9 as claimed: no tree handed to test_trees holds two population nodes of
\* the same label.
C9_NoDuplicateLabelEvaluated ==
    \A k \in 1..Len(stack) :
        \A j \in 1..Len(stack[k].results) :
            DistinctPopulations(new_trees(stack[k])[j])

\* A log that lacks a section marker.
IsMalformed(log) ==
    \/ \A k \in 1..Len(log) : log[k] # "outliers"
    \/ \A k \in 1..Len(log) : log[k] # "worst"

\* C10 as claimed: a graph whose log is malformed is not let through by
\* check_results: it is not recursed into and not recorded as a solution.
C10_MalformedNeverPasses ==
    /\ \A s \in solutions : ~IsMalformed(logs[s])
    /\ \A k \in 1..Len(stack) :
          stack[k].via = "check_results" =>
              ~IsMalformed(logs[GraphName(stack[k].root_tree)])

\* The structure of a tree below element i, up to the names of the n<k>
\* nodes (and of the root) and up to the order of the children.  The element
\* of an admixture node that holds its child, and the side of each of its
\* two elements, are kept: trees of one shape differ in nothing else.
RECURSIVE Shape(_, _)
Shape(t, i) ==
    LET kids == [k \in 1..Len(t[i].kids) |-> Shape(t, t[i].kids[k])]
    IN  [name |-> IF t[i].internal /\ ~t[i].admix THEN <<>> ELSE t[i].tag,
         side |-> t[i].side,
         kids |-> {[shape |-> kids[k],
                    times |-> Cardinality({j \in 1..Len(kids) : kids[j] = kids[k]})]
                   : k \in 1..Len(kids)}]

\* C5 as claimed: two trees of the same structure, however they were built,
\* have the same canonical string and so the same graph name.
C5_SameShapeSameNewick ==
    (Len(build) = 2 /\ Shape(build[1].tree, 1) = Shape(build[2].tree, 1))
    => /\ print_newick_tree(build[1].tree) = print_newick_tree(build[2].tree)
       /\ GraphName(build[1].tree) = GraphName(build[2].tree)

\* C6 as claimed: when a find_graph call has ended, and when the search has
\* returned, every graph that was handed to qpGraph is in the tested graphs.
C6_TestedHoldsEvaluated ==
    pc \in {"pop", "while", "finished"} => DOMAIN logs \subseteq tested_graphs

\* C11 as claimed: a graph whose log is malformed does not end the search in
\* an exception: the batch and the driver go on.
C11_MalformedNotFatal ==
    (\E h \in DOMAIN logs : IsMalformed(logs[h])) => pc # "crashed"

\* A call of recurse_tree has found that neither the regular nor the
\* admixture candidates placed its node (line 126).
AtBacktrack == stack # <<>> /\ Top.at = "checked" /\ ~Top.placed_node /\ Top.admix

IsProblemNode(tag) == \E k \in 1..Len(problem_nodes) : problem_nodes[k] = tag

\* C12: the problem nodes never hold a label twice; a step that changes them
\* appends one label that was not among them; and a call whose node is a
\* problem node already and is placed by neither step raises NodeUnplaceable.
C12_NoLabelTwice ==
    \A j, k \in 1..Len(problem_nodes) : j # k => problem_nodes[j] # problem_nodes[k]
C12_DeferredOnce ==
    /\ problem_nodes' # problem_nodes =>
          /\ AtBacktrack /\ ~IsProblemNode(Top.new_tag)
          /\ problem_nodes' = Append(problem_nodes, Top.new_tag)
    /\ (AtBacktrack /\ IsProblemNode(Top.new_tag)) =>
          (outcome' = "NodeUnplaceable" /\ stack' = <<>> /\ pc' = "pop")
C12_DeferralBound == []C12_NoLabelTwice /\ [][C12_DeferredOnce]_vars

\* C12: a label that was deferred has come up again and neither step placed it.
C12_Witness == AtBacktrack /\ IsProblemNode(Top.new_tag) /\ Top.depth > 0

\* The label was marked a problem node since the find_graph call in progress
\* began.
MarkedInAttempt(tag) ==
    \E k \in (this_attempt.problem_base + 1)..Len(problem_nodes) : problem_nodes[k] = tag

\* C13 as claimed: in every attempt, a call that placed its node by neither
\* step defers it exactly when the label was not marked a problem node in
\* this attempt, nodes remain and the search is not exhaustive; otherwise it
\* raises NodeUnplaceable.
C13_BacktrackRule ==
    AtBacktrack =>
        (CanDefer(Top.new_tag, Top.remaining)
            <=> (~MarkedInAttempt(Top.new_tag) /\ Top.remaining # <<>> /\ ~exhaustive))

\* C14: a call of recurse_tree that has built its admixture candidates had
\* every one of its regular candidates evaluated, and not one of them passed
\* the threshold.
C14_AdmixtureOnlyAfterRegularFailed ==
    \A k \in 1..Len(stack) :
        stack[k].admix =>
            LET regular == RegularTrees(stack[k].root_tree, stack[k].new_tag)
            IN  \A j \in 1..Len(regular) :
                    /\ GraphName(regular[j]) \in DOMAIN logs
                    /\ ~PassesThreshold(OutliersOf(GraphName(regular[j])))

\* C14: the admixture candidates of a call are with qpGraph.
C14_Witness ==
    /\ stack # <<>> /\ Top.admix /\ Top.at = "test_trees"
    /\ Len(Top.results) >= 1

\* A batch has a tree whose result is not there yet.
InFlight ==
    \E k \in 1..Len(stack) : \E j \in 1..Len(stack[k].results) : ~stack[k].results[j].done

\* C15: every batch holds one result per candidate tree, and a call that is
\* past test_trees has every result of its batch; while the result of a tree
\* is outstanding no step changes the tested graphs, the solutions or the
\* problem nodes.
C15_BatchComplete ==
    \A k \in 1..Len(stack) :
        /\ Len(stack[k].results) = Len(new_trees(stack[k]))
        /\ Len(stack[k].graph_names) = Len(new_trees(stack[k]))
        /\ stack[k].at # "test_trees" =>
              \A j \in 1..Len(stack[k].results) : stack[k].results[j].done
C15_NoUpdateInFlight ==
    InFlight => UNCHANGED <<tested_graphs, solutions, problem_nodes>>
C15_JoinBarrier == []C15_BatchComplete /\ [][C15_NoUpdateInFlight]_vars

\* C15: of a batch of several trees one has its result and another has not.
C15_Witness ==
    /\ stack # <<>> /\ Top.at = "test_trees"
    /\ \E i, j \in 1..Len(Top.results) : Top.results[i].done /\ ~Top.results[j].done
    /\ tested_graphs # {}

\* The elements of a tree that carry the tag.
Tagged(t, tag) == {i \in 1..Len(t) : t[i].tag = tag}

\* C16: in every tree grown by regular and admixture insertions the root is
\* R, one node is the outgroup and it is a child of the root; neither the
\* branches a node is added to nor the pairs of an admixture of the next
\* node hold the outgroup.
C16_OutgroupUnderRoot ==
    \A i \in DOMAIN build :
        LET t == build[i].tree
            targets == target_nodes(t)
            pairs == IF build[i].remaining = <<>> THEN <<>> ELSE AdmixPairs(t)
        IN  /\ t[1].tag = root_node
            /\ Cardinality(Tagged(t, outgroup)) = 1
            /\ \A o \in Tagged(t, outgroup) :
                  /\ \E k \in 1..Len(t[1].kids) : t[1].kids[k] = o
                  /\ t[o].kids = <<>>
            /\ \A k \in 1..Len(targets) : t[targets[k]].tag # outgroup
            /\ \A k \in 1..Len(pairs) :
                  t[pairs[k][1]].tag # outgroup /\ t[pairs[k][2]].tag # outgroup

\* C16: a tree of four populations with two admixtures is complete.
C16_Witness ==
    /\ Len(build) = 1 /\ build[1].remaining = <<>>
    /\ NumAdmix(build[1].tree) = 2

\* The text is the letter followed by decimal digits.
IsLabel(text, letter) ==
    /\ Len(text) >= 2 /\ text[1] = letter
    /\ \A k \in 2..Len(text) : text[k] \in 48..57

\* C17: in every tree grown by regular and admixture insertions, new_label
\* gives an n<k> label, or for an admixture an a<k> label, that no node of
\* the tree carries; the internal nodes that are no admixture nodes carry
\* pairwise different tags; an admixture label is carried by two nodes, one
\* of side l and one of side r.
C17_LabelsNeverCollide ==
    \A i \in DOMAIN build :
        LET t == build[i].tree
        IN  /\ IsLabel(new_label(t, FALSE), 110) /\ Tagged(t, new_label(t, FALSE)) = {}
            /\ IsLabel(new_label(t, TRUE), 97) /\ Tagged(t, new_label(t, TRUE)) = {}
            /\ \A a, b \in 1..Len(t) :
                  (a # b /\ t[a].internal /\ ~t[a].admix) => t[a].tag # t[b].tag
            /\ \A a \in 1..Len(t) :
                  t[a].admix =>
                      /\ Cardinality(Tagged(t, t[a].tag)) = 2
                      /\ \A b \in Tagged(t, t[a].tag) : t[b].admix /\ t[b].internal
                      /\ {t[b].side : b \in Tagged(t, t[a].tag)} = {"l", "r"}

\* The nodes of u that carry `tag` and are not nodes of t: an insertion only
\* appends to the arena, so a node of t keeps its index in u.
Added(t, u, tag) == {i \in Tagged(u, tag) : i > Len(t)}

\* The candidate AdmixTree(t, target1, target2, new_tag) read against the
\* tree t it was built from.
AdmixWellFormed(t, target1, target2, new_tag) ==
    LET u == AdmixTree(t, target1, target2, new_tag)
        admix_label == new_label(t, TRUE)
        ingress == Tagged(u, admix_label)
        smaller == IF StrLess(t[target1].tag, t[target2].tag) THEN "l" ELSE "r"
    IN  /\ IsLabel(admix_label, 97) /\ Tagged(t, admix_label) = {}
        /\ Cardinality(ingress) = 2
        /\ \A a \in ingress : u[a].admix /\ u[a].internal
        /\ \E l, r \in ingress :
              /\ u[l].side = "l" /\ u[r].side = "r"
              /\ ParentOf(u, l) = ParentOf(u, target1)
              /\ ParentOf(u, r) = ParentOf(u, target2)
              /\ ParentOf(u, l) # ParentOf(u, r)
              /\ Cardinality(Added(t, u, new_tag)) = 1
              /\ \A n \in Added(t, u, new_tag) :
                    /\ u[n].kids = <<>> /\ ~u[n].internal /\ ~u[n].admix
                    /\ u[IF smaller = "l" THEN l ELSE r].kids = <<n>>
                    /\ u[IF smaller = "l" THEN r ELSE l].kids = <<>>

\* C18: every admixture candidate built from a pair of targets with distinct
\* tags holds two new nodes with one new a<k> label, both admixture nodes, the
\* one of side l beside the first target and the one of side r beside the
\* second, under two different parents; the new population is the only child
\* of the one whose target has the smaller tag, and the other has no child.
C18_AdmixtureWellFormed ==
    \A i \in DOMAIN build :
        (build[i].remaining # <<>> /\ NumAdmix(build[i].tree) < build[i].admix) =>
            \A k \in 1..Len(AdmixPairs(build[i].tree)) :
                AdmixWellFormed(build[i].tree, AdmixPairs(build[i].tree)[k][1],
                                AdmixPairs(build[i].tree)[k][2], build[i].remaining[1])

\* find_graph has just returned to the driver without an exception.
FindGraphReturned == pc = "pop" /\ outcome = "returned"

\* C19: when find_graph returns normally, a solution was recorded during that
\* call: since the attempt began, check_results has seen a tree within the
\* threshold with no node remaining, and the solutions are not empty.
C19_ReturnMeansSolution ==
    FindGraphReturned => (this_attempt.recorded /\ solutions # {})

\* C19: find_graph returns normally from an attempt in which a node was
\* deferred.
C19_Witness ==
    FindGraphReturned /\ Len(problem_nodes) > this_attempt.problem_base

\* The tags of the nodes of a tree that are not internal, in document order.
LeafTags(t) ==
    LET leaves == SelectSeq(FindAll(t), LAMBDA i : ~t[i].internal)
    IN  [k \in 1..Len(leaves) |-> t[leaves[k]].tag]

NoRepeat(s) == \A a, b \in 1..Len(s) : a # b => s[a] # s[b]

Range(s) == {s[k] : k \in 1..Len(s)}

\* The node list of the attempt holds no label twice and not the outgroup.
DistinctNodes == NoRepeat(<<outgroup>> \o nodes)

\* A call of recurse_tree as it was entered: a call that has deferred its
\* node has appended it to its own remaining list (line 135).
AsEntered(f) == f.at # "deferred"

\* The outgroup, the populations in the tree, the node being placed and the
\* remaining nodes are the outgroup and the node list, each once.
Conserved(f) ==
    LET labels == LeafTags(f.root_tree) \o <<f.new_tag>> \o f.remaining
    IN  /\ NoRepeat(labels)
        /\ Range(labels) = Range(<<outgroup>> \o nodes)
        /\ \A i \in 1..Len(f.root_tree) :
              ~f.root_tree[i].internal /\ i # 1 => f.root_tree[i].kids = <<>>

\* The leaves of a tree are the outgroup and every node of the list, each once.
CompleteTree(t) ==
    /\ NoRepeat(LeafTags(t))
    /\ Range(LeafTags(t)) = Range(<<outgroup>> \o nodes)

C20_ConservedAtEveryCall ==
    (pc = "find_graph" /\ DistinctNodes) =>
        \A k \in 1..Len(stack) : AsEntered(stack[k]) => Conserved(stack[k])

C20_SolutionsComplete ==
    (DistinctNodes /\ solutions' # solutions) =>
        /\ stack # <<>> /\ Top.remaining = <<>>
        /\ \A g \in solutions' \ solutions :
              \E j \in 1..Len(Top.graph_names) :
                  /\ Top.graph_names[j] = g
                  /\ CompleteTree(new_trees(Top)[j])

\* C20: in an attempt over distinct population labels, at every call of
\* recurse_tree the population leaves of the tree, the node being placed and
\* the remaining nodes are pairwise different and are together the node list;
\* every solution that is recorded is the name of a tree whose leaves are the
\* outgroup and every population, each once.
C20_LabelConservation ==
    []C20_ConservedAtEveryCall /\ [][C20_SolutionsComplete]_vars

\* C20: a solution is recorded in an attempt over three distinct populations
\* in which a node was deferred.
C20_Witness ==
    /\ DistinctNodes /\ Len(nodes) = 3
    /\ solutions # {} /\ this_attempt.recorded
    /\ Len(problem_nodes) > this_attempt.problem_base

\* C21: in a search over distinct population labels no insertion order is
\* the order of two find_graph calls, and there are no more find_graph calls
\* than the node list has permutations.
C21_EachOrderOnce ==
    (attempts # <<>> /\ NoRepeat(<<outgroup>> \o attempts[1])) =>
        /\ NoRepeat(attempts)
        /\ Len(attempts) <= Len(permutations(attempts[1]))

====
